---- MODULE Spec2Model ----
(***************************************************************************)
(* A model of filterpy/common/properties.py: per-instance validated        *)
(* attributes (ClassProperty), the shape coercion as_matrix, the shape     *)
(* templates MatrixTemplate / MatrixFunctionTemplate and the function      *)
(* wrappers DecoratedMatrixFunction / MatrixFunction.                      *)
(*                                                                         *)
(* Python values are records with a "tag".  An array-like (a Python        *)
(* number, a nested list, an ndarray) is [tag |-> "array", shape, data]    *)
(* with its elements in row-major order; a number has shape <<>>.          *)
(* Python's None / True / False, where they can share a field with a       *)
(* string, are the strings PyNone / PyTrue / PyFalse.                      *)
(***************************************************************************)
EXTENDS Integers, Sequences, FiniteSets, TLC

VARIABLES
  heap,      \* Template objects by identity: id -> the object's fields
  dict,      \* obj.__dict__ of every owning instance: key -> value
  assigned,  \* history: the (instance, name) pairs for which line 68 has run
  last       \* the operation performed last, its arguments and its outcome

vars == <<heap, dict, assigned, last>>

-----------------------------------------------------------------------------
(* Bounds of the model *)

\* the axes of input arrays and of target shapes are at most MaxDim long
MaxDim == 3

-----------------------------------------------------------------------------
(* Python values *)

PyNone == "<None>"
PyTrue == "<True>"
PyFalse == "<False>"
\* an attribute that was never set on an object (reading it raises AttributeError)
AttrUnset == "<unset>"

\* bool(x) for the values a name or a multiplicative flag can hold
Truthy(x) == x \notin {PyNone, PyFalse, ""}
\* isinstance(x, str)
IsStr(x) == x \notin {PyNone, PyTrue, PyFalse, AttrUnset}

RECURSIVE Prod(_)
Prod(s) == IF s = <<>> THEN 1 ELSE Head(s) * Prod(Tail(s))

Array(s, d) == [tag |-> "array", shape |-> s, data |-> d]
Scalar(c) == Array(<<>>, <<c>>)
\* an array of shape s holding 1, 2, 3, ... in row-major order
Iota(s) == Array(s, [k \in 1..Prod(s) |-> k])
\* np.zeros(s)
Zeros(s) == Array(s, [k \in 1..Prod(s) |-> 0])

Ok(v) == [ok |-> TRUE, val |-> v]
Fail(e) == [ok |-> FALSE, err |-> e]

\* An exception: its class, its message format, and the format's arguments
\* (the label, the expected shape, and the shape or size that was found).
Exc(c, t, nm, sh, g) == [exc |-> c, text |-> t, name |-> nm, shape |-> sh, got |-> g]

ShapeMismatchText == "Expected {} to be of shape {}, value has shape {}"
ReshapeText == "cannot reshape array of size {} into shape {}"

-----------------------------------------------------------------------------
(* The numpy operations as_matrix uses *)

\* np.squeeze(v): drop the axes of length 1; an object that is no array-like
\* becomes a 0-d object array holding it
np_squeeze(v) ==
  IF v.tag = "array"
    THEN Array(SelectSeq(v.shape, LAMBDA d : d # 1), v.data)
    ELSE IF v.tag = "objarray"
      THEN [tag |-> "objarray", shape |-> SelectSeq(v.shape, LAMBDA d : d # 1), item |-> v.item]
      ELSE [tag |-> "objarray", shape |-> <<>>, item |-> v]

\* m.reshape(s): same elements in the same order, or numpy's ValueError
np_reshape(m, s) ==
  IF Prod(m.shape) # Prod(s)
    THEN Fail(Exc("ValueError", ReshapeText, "", s, <<Prod(m.shape)>>))
    ELSE Ok([m EXCEPT !.shape = s])

\* np.eye(M, N)
np_eye(M, N) ==
  Array(<<M, N>>, [k \in 1..(M * N) |-> IF (k - 1) \div N = (k - 1) % N THEN 1 ELSE 0])

\* m * e for a 0-d array m
np_scalar_times(m, e) ==
  IF m.tag = "array"
    THEN Ok(Array(e.shape, [k \in 1..Len(e.data) |-> m.data[1] * e.data[k]]))
    ELSE Fail(Exc("TypeError", "unsupported operand type(s) for *", "", <<>>, <<>>))

-----------------------------------------------------------------------------
(* as_matrix *)

\* as_matrix with the reshape of line 80 left out: a flat value of the right
\* size is returned as squeezed
as_matrix_unreshaped(shape, v, name, multiplicative) ==
  LET M == shape[1]
      N == shape[2]
      m == np_squeeze(v)
  IN  IF <<M, N>> = m.shape
        THEN Ok(m)
        ELSE IF Len(m.shape) <= 1 /\ (M = 1 \/ N = 1)
          THEN IF Prod(m.shape) = M * N THEN Ok(m) ELSE np_reshape(m, <<M, N>>)
          ELSE IF Truthy(multiplicative) /\ Len(m.shape) = 0 /\ M = N
            THEN np_scalar_times(m, np_eye(M, N))
            ELSE Fail(Exc("ValueError", ShapeMismatchText, name, shape, m.shape))

\* as_matrix with the multiplicative test of line 81 left out
as_matrix_always_multiplicative(shape, v, name, multiplicative) ==
  LET M == shape[1]
      N == shape[2]
      m == np_squeeze(v)
  IN  IF <<M, N>> = m.shape
        THEN Ok(m)
        ELSE IF Len(m.shape) <= 1 /\ (M = 1 \/ N = 1)
          THEN np_reshape(m, <<M, N>>)
          ELSE IF Len(m.shape) = 0 /\ M = N
            THEN np_scalar_times(m, np_eye(M, N))
            ELSE Fail(Exc("ValueError", ShapeMismatchText, name, shape, m.shape))

as_matrix(shape, v, name, multiplicative) ==
  LET M == shape[1]
      N == shape[2]
      m == np_squeeze(v)
  IN  IF <<M, N>> = m.shape
        THEN Ok(m)
        ELSE IF Len(m.shape) <= 1 /\ (M = 1 \/ N = 1)
          THEN np_reshape(m, <<M, N>>)
          ELSE IF Truthy(multiplicative) /\ Len(m.shape) = 0 /\ M = N
            THEN np_scalar_times(m, np_eye(M, N))
            ELSE Fail(Exc("ValueError", ShapeMismatchText, name, shape, m.shape))

-----------------------------------------------------------------------------
(* Template and its subclasses *)

\* Template(): __init__ sets the name
Template_init == [kind |-> "Template", name |-> "template"]

\* MatrixTemplate(m, n, multiplicative): __init__ sets shape and multiplicative
\* only (Template.__init__ is not called, so name is set by the install)
MatrixTemplate_init(m, n, multiplicative) ==
  [kind |-> "MatrixTemplate", shape |-> <<m, n>>,
   multiplicative |-> multiplicative, name |-> AttrUnset]

MatrixFunctionTemplate_init(m, n, multiplicative) ==
  [kind |-> "MatrixFunctionTemplate", shape |-> <<m, n>>,
   multiplicative |-> multiplicative, name |-> AttrUnset]

NoAttribute == Exc("AttributeError", "object has no attribute 'name'", "", <<>>, <<>>)

\* MatrixTemplate.__call__
MatrixTemplate_call(t, v) ==
  IF t.name = AttrUnset
    THEN Fail(NoAttribute)
    ELSE as_matrix(t.shape, v, t.name, t.multiplicative)

-----------------------------------------------------------------------------
(* DecoratedMatrixFunction, MatrixFunctionTemplate, MatrixFunction *)

\* callable(v): plain functions and wrapped functions
callable(v) == v.tag \in {"func", "dmf"}

\* A plain Python function is modelled by what a call of it does:
\* it returns the value ret, or it raises.
ConstFunc(r) == [tag |-> "func", kind |-> "const", ret |-> r]
RaisingFunc == [tag |-> "func", kind |-> "raise"]

RaisedInside == Exc("TypeError", "This should not be called", "", <<>>, <<>>)

\* A call v(): the outcome, and the trace of what ran, in order: "invoke" is a
\* run of a plain function's body, "as_matrix" a shape check.
RECURSIVE Call(_)
Call(v) ==
  IF v.tag = "func"
    THEN [out |-> IF v.kind = "const" THEN Ok(v.ret) ELSE Fail(RaisedInside),
          trace |-> <<"invoke">>]
    ELSE IF v.tag = "dmf"
      \* DecoratedMatrixFunction.__call__: self.f(...) is evaluated first
      THEN LET r == Call(v.f)
           IN  IF r.out.ok
                 THEN [out |-> as_matrix(v.shape, r.out.val, v.resultName, v.multiplicative),
                       trace |-> Append(r.trace, "as_matrix")]
                 ELSE r
      ELSE [out |-> Fail(Exc("TypeError", "object is not callable", "", <<>>, <<>>)),
            trace |-> <<>>]

\* DecoratedMatrixFunction that checks f's return value when it is wrapped
DecoratedMatrixFunction_init_eager(shape, f, name, multiplicative) ==
  IF ~callable(f)
    THEN Fail(Exc("ValueError", "f must be callable", "", <<>>, <<>>))
    ELSE LET r == Call(f).out
             w == [tag |-> "dmf", shape |-> shape, name |-> name,
                   multiplicative |-> multiplicative,
                   resultName |-> IF name # PyNone /\ IsStr(name)
                                    THEN "return value of " \o name
                                    ELSE "return value",
                   f |-> f]
         IN  IF ~r.ok THEN r
             ELSE IF ~as_matrix(shape, r.val, w.resultName, multiplicative).ok
               THEN as_matrix(shape, r.val, w.resultName, multiplicative)
               ELSE Ok(w)

\* DecoratedMatrixFunction(shape, f, name, multiplicative)
DecoratedMatrixFunction_init(shape, f, name, multiplicative) ==
  IF ~callable(f)
    THEN Fail(Exc("ValueError", "f must be callable", "", <<>>, <<>>))
    ELSE Ok([tag |-> "dmf", shape |-> shape, name |-> name,
             multiplicative |-> multiplicative,
             resultName |-> IF name # PyNone /\ IsStr(name)
                              THEN "return value of " \o name
                              ELSE "return value",
             f |-> f])

\* MatrixFunctionTemplate.__call__ without the isinstance branch: a wrapped
\* function is wrapped again like any callable
MatrixFunctionTemplate_call_rewrap(t, f) ==
  IF t.name = AttrUnset
    THEN Fail(NoAttribute)
    ELSE IF ~callable(f)
      THEN Fail(Exc("ValueError", "{} must be a function", t.name, <<>>, <<>>))
      ELSE DecoratedMatrixFunction_init(t.shape, f, t.name, t.multiplicative)

\* MatrixFunctionTemplate.__call__
MatrixFunctionTemplate_call(t, f) ==
  IF f.tag = "dmf"
    THEN IF f.shape # t.shape
           THEN Fail(IF t.name = AttrUnset THEN NoAttribute
                     ELSE Exc("ValueError",
                              "The return value of {} don't properly in a {} x {} matrix",
                              t.name, f.shape, <<>>))
           ELSE Ok(f)
    ELSE IF t.name = AttrUnset
      THEN Fail(NoAttribute)
      ELSE IF ~callable(f)
        THEN Fail(Exc("ValueError", "{} must be a function", t.name, <<>>, <<>>))
        ELSE DecoratedMatrixFunction_init(t.shape, f, t.name, t.multiplicative)

\* MatrixFunction(m, n, multiplicative, name)
MatrixFunction_init(m, n, multiplicative, name) ==
  [shape |-> <<m, n>>, name |-> name, multiplicative |-> multiplicative]

\* MatrixFunction.__call__(f): the last two arguments of the constructor call
\* are passed by position, in the order (self.multiplicative, name)
MatrixFunction_call(a, f) ==
  LET name == IF a.name # PyNone THEN a.name
              ELSE IF f.tag = "dmf" /\ IsStr(f.name) THEN f.name ELSE PyNone
  IN  DecoratedMatrixFunction_init(a.shape, f, a.multiplicative, name)

\* Template.__call__ of whichever class the template object has
Template_call(t, v) ==
  IF t.kind = "MatrixTemplate" THEN MatrixTemplate_call(t, v)
  ELSE IF t.kind = "MatrixFunctionTemplate" THEN MatrixFunctionTemplate_call(t, v)
  ELSE Ok(v)

-----------------------------------------------------------------------------
(* ClassProperty: the storage in obj.__dict__ *)

Objs == {1, 2}
Names == {"A", "F"}
\* the attributes in a fixed order
SlotIndex(o, n) == (o - 1) * Cardinality(Names) + (IF n = "A" THEN 1 ELSE 2)
NumSlots == Cardinality(Objs) * Cardinality(Names)
\* identities of Template objects.  Addresses are not observable, so an object
\* that is installed is named after the first attribute that holds it; the
\* extra identity FreshId is that of an object just constructed.
TIds == 1..(NumSlots + 1)
FreshId == NumSlots + 1

Free == [kind |-> "free"]
NoTemplate == [kind |-> "None"]

ValueKey(n) == n \o "#value"
TemplateKey(n) == n \o "#template"

Put(d, k, x) == [kk \in (DOMAIN d) \cup {k} |-> IF kk = k THEN x ELSE d[kk]]

HasTemplate(dd, o, n) == TemplateKey(n) \in DOMAIN dd[o]
\* the attributes whose __dict__ entry refers to the Template object i
Holders(dd, i) ==
  {s \in Objs \X Names : HasTemplate(dd, s[1], s[2]) /\ dd[s[1]][TemplateKey(s[2])] = i}
\* the name of object i: the least index of an attribute holding it
NameOf(dd, i) ==
  LET ks == {SlotIndex(s[1], s[2]) : s \in Holders(dd, i)}
  IN  CHOOSE k \in ks : \A j \in ks : k <= j
\* the attribute with index j
SlotAt(j) == CHOOSE s \in Objs \X Names : SlotIndex(s[1], s[2]) = j
\* the heap after a store: an object is found under its name, and objects
\* nothing refers to are collected
HeapAfter(h, dd) ==
  [j \in TIds |->
     IF j > NumSlots \/ ~HasTemplate(dd, SlotAt(j)[1], SlotAt(j)[2])
       THEN Free
       ELSE LET i == dd[SlotAt(j)[1]][TemplateKey(SlotAt(j)[2])]
            IN  IF NameOf(dd, i) = j THEN h[i] ELSE Free]
DictAfter(dd) ==
  [o \in Objs |->
     [k \in DOMAIN dd[o] |->
        IF k \in {TemplateKey(n) : n \in Names} THEN NameOf(dd, dd[o][k]) ELSE dd[o][k]]]

\* ClassProperty.__get__
ClassProperty_get(o, n) ==
  IF ValueKey(n) \in DOMAIN dict[o]
    THEN Ok(dict[o][ValueKey(n)])
    ELSE Fail(Exc("AttributeError", "Property " \o n \o " is not defined yet", "", <<>>, <<>>))

\* the template __set__ finds (lines 61-65), as the object's fields
TemplateOf(o, n) ==
  IF TemplateKey(n) \in DOMAIN dict[o] THEN heap[dict[o][TemplateKey(n)]] ELSE NoTemplate

\* __set__ without lines 66-67: the template is never applied
Validate_skipped(t, v) == Ok(v)

\* lines 66-67: the value __set__ is about to store
Validate(t, v) == IF t.kind = "None" THEN Ok(v) ELSE Template_call(t, v)

\* __set__ with a Template instance that also drops the stored value
SetTemplate_clearing(o, n, tid, t) ==
  LET dd == [dict EXCEPT ![o] = Put([k \in (DOMAIN @) \ {ValueKey(n)} |-> @[k]],
                                     TemplateKey(n), tid)]
      hh == [heap EXCEPT ![tid] = [t EXCEPT !.name = n]]
  IN  /\ dict' = DictAfter(dd)
      /\ heap' = HeapAfter(hh, dd)
      /\ assigned' = assigned
      /\ last' = [op |-> "install", o |-> o, n |-> n, tid |-> NameOf(dd, tid), tmpl |-> t]

\* ClassProperty.__set__ with a Template instance: obj.attr = t, where t is
\* the object tid
SetTemplate(o, n, tid, t) ==
  LET dd == [dict EXCEPT ![o] = Put(@, TemplateKey(n), tid)]
      hh == [heap EXCEPT ![tid] = [t EXCEPT !.name = n]]
  IN  /\ dict' = DictAfter(dd)
      /\ heap' = HeapAfter(hh, dd)
      /\ assigned' = assigned
      /\ last' = [op |-> "install", o |-> o, n |-> n, tid |-> NameOf(dd, tid), tmpl |-> t]

\* obj.attr = <a newly constructed Template object>
InstallNew(o, n, t) == SetTemplate(o, n, FreshId, t)

\* obj.attr = <a Template object that is installed somewhere already>
InstallShared(o, n, tid) ==
  /\ Holders(dict, tid) # {}
  /\ SetTemplate(o, n, tid, heap[tid])

\* __set__ keeping the value in one slot per name, shared by the instances
SetValue_classwide(o, n, v) ==
  LET t == TemplateOf(o, n)
      r == Validate(t, v)
  IN  /\ heap' = heap
      /\ dict' = IF r.ok THEN [x \in Objs |-> Put(dict[x], ValueKey(n), r.val)] ELSE dict
      /\ assigned' = IF r.ok THEN assigned \cup {<<x, n>> : x \in Objs} ELSE assigned
      /\ last' = [op |-> "set", o |-> o, n |-> n, arg |-> v, tmpl |-> t,
                  out |-> r, trace |-> <<>>]

\* ClassProperty.__set__ with any other value
SetValue(o, n, v) ==
  LET t == TemplateOf(o, n)
      r == Validate(t, v)
  IN  /\ heap' = heap
      /\ dict' = IF r.ok THEN [dict EXCEPT ![o] = Put(@, ValueKey(n), r.val)] ELSE dict
      /\ assigned' = IF r.ok THEN assigned \cup {<<o, n>>} ELSE assigned
      /\ last' = [op |-> "set", o |-> o, n |-> n, arg |-> v, tmpl |-> t,
                  out |-> r, trace |-> <<>>]

\* x = obj.attr
Get(o, n) ==
  /\ UNCHANGED <<heap, dict, assigned>>
  /\ last' = [op |-> "get", o |-> o, n |-> n, out |-> ClassProperty_get(o, n)]

Init ==
  /\ heap = [i \in TIds |-> Free]
  /\ dict = [o \in Objs |-> [k \in {} |-> 0]]
  /\ assigned = {}
  /\ last = [op |-> "init"]

-----------------------------------------------------------------------------
(* Spec: two instances of a class with the attributes A and F *)

StoreTemplates == {MatrixTemplate_init(2, 2, PyTrue), MatrixTemplate_init(1, 2, PyTrue)}
StoreValues == {Scalar(3)}

\* the attributes client code uses: both attributes of one instance, and one
\* of them on a second instance
Attrs == {<<1, "A">>, <<1, "F">>, <<2, "A">>}

StoreInstall == \E s \in Attrs, t \in StoreTemplates : InstallNew(s[1], s[2], t)
StoreShare == \E s \in Attrs, tid \in TIds : InstallShared(s[1], s[2], tid)
StoreSet == \E s \in Attrs, v \in StoreValues : SetValue(s[1], s[2], v)
StoreGet == \E s \in Attrs : Get(s[1], s[2])

Next == StoreInstall \/ StoreShare \/ StoreSet \/ StoreGet

Spec == Init /\ [][Next]_vars

-----------------------------------------------------------------------------
(* SpecMatrix: one attribute under MatrixTemplate, every shape and input *)

Dims == 1..MaxDim
PyBools == {PyTrue, PyFalse}

\* the shapes of the inputs: a number, flat sequences (the empty one too),
\* 2-D arrays (<<1, k>> and <<k, 1>> are padded sequences, <<1, 1>> a padded
\* number), and proper 2-D arrays and a number nested once more
FlatShapes == {<<k>> : k \in 0..MaxDim}
Shapes2D == {<<a, b>> : a \in Dims, b \in Dims}
PaddedShapes == {<<1, 1, 1>>} \cup {<<1>> \o s : s \in {x \in Shapes2D : x[1] > 1 /\ x[2] > 1}}
InputShapes == {<<>>} \cup FlatShapes \cup Shapes2D \cup PaddedShapes
InputArrays == {Iota(s) : s \in InputShapes} \cup {Scalar(0)}

MatrixInstall == \E m \in Dims, n \in Dims, b \in PyBools :
                   InstallNew(1, "A", MatrixTemplate_init(m, n, b))
MatrixSet == \E v \in InputArrays : SetValue(1, "A", v)
MatrixGet == Get(1, "A")

NextMatrix == MatrixInstall \/ MatrixSet \/ MatrixGet

SpecMatrix == Init /\ [][NextMatrix]_vars

-----------------------------------------------------------------------------
(* SpecFunction: one attribute holding functions, under MatrixFunctionTemplate *)

FShapes == {<<1, 2>>, <<2, 2>>}
FNames == {PyNone, "g"}
PlainFuncs == {ConstFunc(Scalar(0)), ConstFunc(Scalar(3)), ConstFunc(Iota(<<2, 2>>)), RaisingFunc}
\* what client code may offer where a function is expected
Candidates == PlainFuncs \cup {Scalar(3)}

\* w = MatrixFunction(m, n, multiplicative, name)(f), the annotation applied
Decorate(a, f) ==
  /\ UNCHANGED <<heap, dict, assigned>>
  /\ last' = [op |-> "decorate", anno |-> a, arg |-> f, out |-> MatrixFunction_call(a, f)]

\* w = DecoratedMatrixFunction(shape, f, name=name, multiplicative=multiplicative)
Wrap(a, f) ==
  /\ UNCHANGED <<heap, dict, assigned>>
  /\ last' = [op |-> "wrap", anno |-> a, arg |-> f,
              out |-> DecoratedMatrixFunction_init(a.shape, f, a.name, a.multiplicative)]

\* obj.attr = w, for the wrapper w just built
AssignWrapper(o, n) ==
  /\ last.op \in {"decorate", "wrap"}
  /\ last.out.ok
  /\ SetValue(o, n, last.out.val)

\* obj.attr(): read the attribute, then call what was read
CallAttr(o, n) ==
  LET g == ClassProperty_get(o, n)
  IN  /\ UNCHANGED <<heap, dict, assigned>>
      /\ last' = IF g.ok
                   THEN [op |-> "call", o |-> o, n |-> n, arg |-> g.val,
                         out |-> Call(g.val).out, trace |-> Call(g.val).trace]
                   ELSE [op |-> "call", o |-> o, n |-> n, out |-> g, trace |-> <<>>]

FunctionInstall == \E s \in FShapes, b \in PyBools :
                     InstallNew(1, "F", MatrixFunctionTemplate_init(s[1], s[2], b))
FunctionDecorate == \E s \in FShapes, b \in PyBools, nm \in FNames, f \in Candidates :
                      Decorate(MatrixFunction_init(s[1], s[2], b, nm), f)
FunctionWrap == \E s \in FShapes, b \in PyBools, nm \in FNames, f \in Candidates :
                  Wrap(MatrixFunction_init(s[1], s[2], b, nm), f)
FunctionSet == \E v \in Candidates : SetValue(1, "F", v)
FunctionAssign == AssignWrapper(1, "F")
FunctionCall == CallAttr(1, "F")
FunctionGet == Get(1, "F")

NextFunction ==
  \/ FunctionInstall \/ FunctionDecorate \/ FunctionWrap
  \/ FunctionSet \/ FunctionAssign \/ FunctionCall \/ FunctionGet

SpecFunction == Init /\ [][NextFunction]_vars

-----------------------------------------------------------------------------
(* Claims about MatrixTemplate and as_matrix, under SpecMatrix *)

\* the last operation was a plain-value write that found a MatrixTemplate
WroteUnderMatrixTemplate == last.op = "set" /\ last.tmpl.kind = "MatrixTemplate"

\* C1: a write under MatrixTemplate(M, N) either fails or stores and returns a
\* value whose shape is exactly (M, N), with M * N elements.
C1_ShapeExact ==
  (WroteUnderMatrixTemplate /\ last.out.ok) =>
     /\ last.out.val.shape = last.tmpl.shape
     /\ Len(last.out.val.data) = last.tmpl.shape[1] * last.tmpl.shape[2]
     /\ ClassProperty_get(last.o, last.n) = Ok(last.out.val)

\* a flat sequence has been coerced to a column vector
C1_Witness ==
  /\ WroteUnderMatrixTemplate /\ last.out.ok
  /\ Len(last.arg.shape) = 1
  /\ last.tmpl.shape[2] = 1 /\ last.tmpl.shape[1] > 1
  /\ last.out.val.shape = last.tmpl.shape

\* C2: assigning the number 0 under MatrixTemplate(M, N) succeeds for every
\* shape and the value read back is the all-zero array of shape (M, N).
C2_ZeroAccepted ==
  (WroteUnderMatrixTemplate /\ last.arg = Scalar(0)) =>
     /\ last.out.ok
     /\ ClassProperty_get(last.o, last.n) = Ok(Zeros(last.tmpl.shape))

\* the last write offered a pure scalar to a template that is not multiplicative
ScalarNotMultiplicative ==
  /\ WroteUnderMatrixTemplate
  /\ ~Truthy(last.tmpl.multiplicative)
  /\ np_squeeze(last.arg).shape = <<>>

C10_DescriptiveError ==
  (WroteUnderMatrixTemplate /\ ~last.out.ok) =>
     last.out.err = Exc("ValueError", ShapeMismatchText, last.tmpl.name,
                        last.tmpl.shape, np_squeeze(last.arg).shape)

-----------------------------------------------------------------------------
(* Claims about the attribute storage, under Spec *)

AllAttrs == Objs \X Names
\* the operation of the step was performed on attribute s
StepOn(s) ==
  /\ last'.op \in {"install", "set", "get"}
  /\ last'.o = s[1] /\ last'.n = s[2]
\* attributes p and q hold the same Template object
SameObject(p, q) ==
  /\ HasTemplate(dict, p[1], p[2]) /\ HasTemplate(dict, q[1], q[2])
  /\ dict[p[1]][TemplateKey(p[2])] = dict[q[1]][TemplateKey(q[2])]

C5_State ==
  /\ \A s \in AllAttrs :
       LET g == ClassProperty_get(s[1], s[2])
       IN  /\ g.ok <=> s \in assigned
           /\ ~g.ok => g.err.exc = "AttributeError"
  /\ last.op = "get" => last.out = ClassProperty_get(last.o, last.n)
  /\ (last.op = "set" /\ last.out.ok) =>
        ClassProperty_get(last.o, last.n) =
          IF last.tmpl.kind = "None" THEN Ok(last.arg) ELSE Template_call(last.tmpl, last.arg)

C5_Step ==
  \A s \in AllAttrs :
    ~(StepOn(s) /\ last'.op = "set" /\ last'.out.ok) =>
       ClassProperty_get(s[1], s[2])' = ClassProperty_get(s[1], s[2])

\* C5: a read fails with AttributeError exactly when no plain-value write to
\* the attribute has succeeded yet (also when only a template is installed);
\* after a successful write of x a read returns the template of that moment
\* applied to x (x itself without a template), until the next successful write.
C5_ReadAfterWrite == []C5_State /\ [][C5_Step]_vars

\* a read failed as undefined on an attribute that has a template installed
C5_Witness ==
  /\ last.op = "get" /\ ~last.out.ok
  /\ HasTemplate(dict, last.o, last.n)

C6_Step ==
  \A s \in AllAttrs :
    (StepOn(s) /\ last'.op = "install") =>
       /\ TemplateOf(s[1], s[2])' = [last'.tmpl EXCEPT !.name = s[2]]
       /\ ClassProperty_get(s[1], s[2])' = ClassProperty_get(s[1], s[2])
       /\ assigned' = assigned

\* C6: assigning a Template instance installs it (named after the attribute)
\* and leaves the stored value as it is: still undefined, or the identical
\* value, neither cleared nor validated again.
C6_InstallKeepsValue == [][C6_Step]_vars

\* a template was installed over a stored value that has not its shape
C6_Witness ==
  /\ last.op = "install"
  /\ ClassProperty_get(last.o, last.n).ok
  /\ ClassProperty_get(last.o, last.n).val.shape # TemplateOf(last.o, last.n).shape

C7_StepStrict ==
  \A s \in AllAttrs : \A p \in AllAttrs \ {s} :
    StepOn(s) =>
       /\ ClassProperty_get(p[1], p[2])' = ClassProperty_get(p[1], p[2])
       /\ TemplateOf(p[1], p[2])' = TemplateOf(p[1], p[2])

\* C7 as stated: no install or write on one (instance, name) pair changes the
\* stored value or the installed validator of another pair.
C7_Isolated == [][C7_StepStrict]_vars

C7_StepUpToLabel ==
  \A s \in AllAttrs : \A p \in AllAttrs \ {s} :
    StepOn(s) =>
       /\ ClassProperty_get(p[1], p[2])' = ClassProperty_get(p[1], p[2])
       /\ \A q \in AllAttrs \ {s} : SameObject(p, q)' = SameObject(p, q)
       /\ \/ TemplateOf(p[1], p[2])' = TemplateOf(p[1], p[2])
          \/ /\ last'.op = "install"
             /\ SameObject(p, s)'
             /\ TemplateOf(p[1], p[2])' = [TemplateOf(p[1], p[2]) EXCEPT !.name = s[2]]

\* C7 amended: no install or write on one pair changes the stored value of
\* another pair, which Template object that pair holds, or that object's
\* class, shape and flag; only the name label of a Template object changes,
\* when the very same object is installed on a second attribute.
C7_IsolatedUpToLabel == [][C7_StepUpToLabel]_vars

\* one Template object was installed on two attributes of different names
C7_Witness ==
  /\ last.op = "install"
  /\ \E p \in AllAttrs :
       /\ p # <<last.o, last.n>> /\ p[2] # last.n
       /\ SameObject(p, <<last.o, last.n>>)

-----------------------------------------------------------------------------
(* Claims about the function wrappers, under SpecFunction *)

\* C4: MatrixFunction(rows, cols, multiplicative, name)(f) carries that shape,
\* that flag and that name; for a square shape and f returning the scalar s a
\* call returns s * Identity when multiplicative is true and fails when false.
C4_DecoratorCarriesArguments ==
  (last.op = "decorate" /\ callable(last.arg)) =>
     /\ last.out.ok
     /\ last.out.val.shape = last.anno.shape
     /\ last.out.val.multiplicative = last.anno.multiplicative
     /\ last.out.val.name = last.anno.name
     /\ (/\ last.arg = ConstFunc(Scalar(3))
         /\ last.anno.shape[1] = last.anno.shape[2])
           => IF last.anno.multiplicative = PyTrue
                THEN Call(last.out.val).out =
                       np_scalar_times(Scalar(3), np_eye(last.anno.shape[1], last.anno.shape[2]))
                ELSE ~Call(last.out.val).out.ok

C8_Step ==
  (last'.op = "set" /\ last'.tmpl.kind = "MatrixFunctionTemplate") =>
    LET t == TemplateOf(last'.o, last'.n)
        c == last'.arg
        r == last'.out
        stored == dict'[last'.o][ValueKey(last'.n)]
    IN  /\ (c.tag = "dmf" /\ c.shape = t.shape) =>
              r = Ok(c) /\ stored = c /\ Validate(t, r.val) = r
        /\ (c.tag = "dmf" /\ c.shape # t.shape) =>
              ~r.ok /\ r.err.exc = "ValueError" /\ dict' = dict
        /\ ~callable(c) =>
              ~r.ok /\ r.err.exc = "ValueError" /\ dict' = dict
        /\ (callable(c) /\ c.tag # "dmf") =>
              /\ r.ok /\ stored = r.val
              /\ r.val.tag = "dmf" /\ r.val.f = c
              /\ r.val.shape = t.shape
              /\ r.val.multiplicative = t.multiplicative
              /\ r.val.name = t.name

\* C8: what a write under MatrixFunctionTemplate with shape S does with the
\* candidate c: a wrapped function of shape S is stored as it is, keeping its
\* own flag; a wrapped function of another shape and a non-callable fail with
\* ValueError and leave the storage as it was; any other callable is stored
\* wrapped with S and the template's flag and name.
C8_FunctionTemplateApply == [][C8_Step]_vars

\* a wrapped function with its own flag was accepted by a template of the
\* same shape and the other flag
C8_Witness ==
  /\ last.op = "set" /\ last.tmpl.kind = "MatrixFunctionTemplate"
  /\ last.arg.tag = "dmf" /\ last.arg.shape = last.tmpl.shape
  /\ last.arg.multiplicative = PyFalse /\ last.tmpl.multiplicative = PyTrue
  /\ last.out.ok

\* C9: wrapping a callable succeeds whatever the callable would do and wraps
\* that very callable; a call of the wrapper runs the callable once and checks
\* the shape only after it has returned; a return value that cannot have the
\* shape is reported; an exception from the callable comes out unchanged.
C9_LazyValidation ==
  /\ (last.op \in {"decorate", "wrap"} /\ callable(last.arg)) =>
        last.out.ok /\ last.out.val.f = last.arg
  /\ (last.op = "set" /\ last.tmpl.kind = "MatrixFunctionTemplate" /\ last.arg.tag = "func") =>
        last.out.ok /\ last.out.val.f = last.arg
  /\ (/\ last.op = "call"
      /\ "arg" \in DOMAIN last
      /\ last.arg.tag = "dmf"
      /\ last.arg.f.tag = "func") =>
        IF last.arg.f.kind = "raise"
          THEN last.trace = <<"invoke">> /\ last.out = Fail(RaisedInside)
          ELSE /\ last.trace = <<"invoke", "as_matrix">>
               /\ last.out.ok => last.out.val.shape = last.arg.shape
               /\ (/\ Len(np_squeeze(last.arg.f.ret).shape) = 2
                   /\ np_squeeze(last.arg.f.ret).shape # last.arg.shape)
                     => (~last.out.ok /\ last.out.err.exc = "ValueError"
                         /\ last.out.err.text = ShapeMismatchText)

\* a wrapper around a raising function was built, stored and called, and the
\* function's own exception came out
C9_Witness ==
  /\ last.op = "call" /\ "arg" \in DOMAIN last
  /\ last.arg.tag = "dmf" /\ last.arg.f = RaisingFunc
  /\ last.out = Fail(RaisedInside)

====
